---------------------------- MODULE Spec2Model ----------------------------
(***************************************************************************)
(* Model of lib/src/git_backend.rs: the GitBackend storage adapter that    *)
(* maps commits, trees, files, symlinks and conflicts onto a Git object    *)
(* store (git2) plus an extra-metadata overlay table (TableStore).         *)
(*                                                                         *)
(* Bytes are integers 0..255, ids are sequences of bytes, strings that the *)
(* code slices (entry names, hex text) are sequences of one-character      *)
(* strings.  The Git object store is a map from Oid to object; its hash is *)
(* collision free: an object already stored keeps its Oid, a new object    *)
(* gets an Oid no other object has.                                        *)
(***************************************************************************)
EXTENDS Integers, Sequences, FiniteSets, TLC

VARIABLES objects, refs, extra, ret, written, lock, pc

vars == <<objects, refs, extra, ret, written, lock, pc>>

\* The state of the threads that call the backend concurrently: the Mutex
\* around the repository, and where each thread is in its call.
threads == <<lock, pc>>

-----------------------------------------------------------------------------
(* Bounds of the model. *)

\* Objects the Git store may hold before further new-object writes stop.
MaxObjects == 2
\* Tree objects among them.
MaxTrees == 1
\* Pinning references that may be created (write_commit calls that reach
\* the native commit write).
MaxRefs == 2
\* The same, for the threads that race on one commit.
MaxRaceRefs == 3

-----------------------------------------------------------------------------
(* Identifiers. *)

HASH_LENGTH == 20

\* 4b825dc642cb6eb9a060e54bf8d69288fbee4904
EmptyTreeId ==
    <<75, 130, 93, 198, 66, 203, 110, 185, 160, 96,
      229, 75, 248, 214, 146, 136, 251, 238, 73, 4>>

\* efdcea5ca4b3658149f899ca7feee6876d077263, the commit id of the test
\* read_plain_git_commit.
OidA ==
    <<239, 220, 234, 92, 164, 179, 101, 129, 73, 248,
      153, 202, 127, 238, 230, 135, 109, 7, 114, 99>>

OidB ==
    <<165, 77, 202, 24, 37, 48, 187, 29, 109, 19,
      44, 222, 214, 35, 123, 46, 217, 30, 63, 114>>

OidC ==
    <<31, 203, 25, 113, 23, 68, 148, 214, 73, 60,
      157, 92, 52, 96, 190, 49, 32, 30, 105, 254>>

OidD ==
    <<230, 157, 226, 155, 178, 209, 214, 67, 75, 139,
      41, 174, 119, 90, 216, 194, 228, 140, 83, 145>>

\* The Oids the store's hash gives to new objects, in the order the model
\* hands them out.
OidOrder == <<OidA, OidB, OidC, OidD>>

OidPool == {OidOrder[i] : i \in DOMAIN OidOrder}

\* A well-formed id that names no object of the store, ever.
DanglingOid ==
    <<218, 160, 238, 232, 185, 153, 127, 92, 124, 41,
      153, 253, 175, 229, 147, 37, 60, 214, 84, 175>>

\* An id whose length is not the hash length.
ShortId == <<0, 255>>

\* c64ee0b6e16777fe53991f9281a6cd25, the change id the test
\* read_plain_git_commit expects for OidA.
ChangeIdOfOidA ==
    <<198, 78, 224, 182, 225, 103, 119, 254,
      83, 153, 31, 146, 129, 166, 205, 37>>

-----------------------------------------------------------------------------
(* Results of a call: Ok(value), Err(NotFound), Err(Other(message)), or an *)
(* abort of the call (a panic from unwrap() or panic!).                    *)

Ok(v) == [tag |-> "Ok", val |-> v]
ErrNotFound == [tag |-> "Err", err |-> "NotFound"]
\* The message of Other names a commit (as hex text) or none (empty text).
ErrOther(text, commit) ==
    [tag |-> "Err", err |-> "Other", msg |-> [text |-> text, commit |-> commit]]
Panic == [tag |-> "Panic"]

\* An arithmetic overflow on the way to the value: the build decides
\* whether the call aborts (overflow checks) or wraps and returns it.
Overflow(v) == [tag |-> "Overflow", val |-> v]

\* The results the builds give.
build_outcomes(r) == IF r.tag = "Overflow" THEN {Panic, Ok(r.val)} ELSE {r}

IsOk(r) == r.tag = "Ok"
IsNotFound(r) == r.tag = "Err" /\ r.err = "NotFound"
IsOther(r) == r.tag = "Err" /\ r.err = "Other"

-----------------------------------------------------------------------------
(* Sequence helpers. *)

Reverse(s) == [i \in 1..Len(s) |-> s[Len(s) + 1 - i]]

RECURSIVE Flatten(_)
Flatten(ss) == IF ss = <<>> THEN <<>> ELSE Head(ss) \o Flatten(Tail(ss))

EndsWith(s, suffix) ==
    /\ Len(s) >= Len(suffix)
    /\ SubSeq(s, Len(s) - Len(suffix) + 1, Len(s)) = suffix

-----------------------------------------------------------------------------
(* u8::reverse_bits and the change-id derivation of read_commit.           *)

RECURSIVE RevLoop(_, _, _)
RevLoop(b, acc, n) ==
    IF n = 0 THEN acc ELSE RevLoop(b \div 2, acc * 2 + (b % 2), n - 1)

reverse_bits(b) == RevLoop(b, 0, 8)

\* Fault variant: the bits are reversed but the byte order is kept.
derived_change_id_unreversed(id) ==
    LET slice == SubSeq(id, 5, HASH_LENGTH)
    IN  [i \in 1..Len(slice) |-> reverse_bits(slice[i])]

\* id.as_bytes()[4..HASH_LENGTH].iter().rev().map(|b| b.reverse_bits())
derived_change_id(id) ==
    LET slice == SubSeq(id, 5, HASH_LENGTH)
        rev == Reverse(slice)
    IN  [i \in 1..Len(rev) |-> reverse_bits(rev[i])]

-----------------------------------------------------------------------------
(* Hex text of ids (id.hex(), hex::decode).                                *)

HexDigits ==
    <<"0", "1", "2", "3", "4", "5", "6", "7",
      "8", "9", "a", "b", "c", "d", "e", "f">>

hex(bytes) ==
    Flatten([i \in 1..Len(bytes) |->
                <<HexDigits[(bytes[i] \div 16) + 1], HexDigits[(bytes[i] % 16) + 1]>>])

IsHexText(s) ==
    /\ Len(s) % 2 = 0
    /\ \A i \in 1..Len(s) : \E d \in 1..16 : HexDigits[d] = s[i]

HexVal(c) == (CHOOSE d \in 1..16 : HexDigits[d] = c) - 1

\* hex::decode(text); defined where IsHexText(text)
hex_decode(s) ==
    [i \in 1..(Len(s) \div 2) |-> HexVal(s[2 * i - 1]) * 16 + HexVal(s[2 * i])]

-----------------------------------------------------------------------------
(* Option values. *)

None == [some |-> FALSE]
Some(v) == [some |-> TRUE, v |-> v]

-----------------------------------------------------------------------------
(* Signatures: the domain Signature has a millisecond timestamp, a u64,    *)
(* the Git signature has whole seconds, an i64.  The numbers are numerals  *)
(* in base 1000, most significant digit first and no leading zero, so that *)
(* the whole 64-bit range is at hand: <<1, 500>> is 1500.                  *)

\* u64::MAX, 18,446,744,073,709,551,615
U64_MAX == <<18, 446, 744, 73, 709, 551, 615>>

\* i64::MAX, 9,223,372,036,854,775,807
I64_MAX == <<9, 223, 372, 36, 854, 775, 807>>

NumLeq(a, b) ==
    IF Len(a) # Len(b) THEN Len(a) < Len(b)
    ELSE \/ a = b
         \/ \E i \in 1..Len(a) : a[i] < b[i] /\ \A j \in 1..(i - 1) : a[j] = b[j]

\* n / 1000 in u64: the last digit is dropped.
div_1000(n) == IF Len(n) = 1 THEN <<0>> ELSE SubSeq(n, 1, Len(n) - 1)

\* n * 1000, as the number it is.
mul_1000(n) == IF n = <<0>> THEN <<0>> ELSE Append(n, 0)

\* (timestamp.0 / 1000) as i64: the quotient is below i64::MAX, the cast
\* keeps it.
signature_to_git(signature) ==
    [name |-> signature.name,
     email |-> signature.email,
     seconds |-> div_1000(signature.timestamp.timestamp),
     offset_minutes |-> signature.timestamp.tz_offset]

\* seconds() * 1000 is a product in i64: it overflows when it is above
\* i64::MAX.
seconds_overflow(signature) == ~NumLeq(mul_1000(signature.seconds), I64_MAX)

\* (seconds() * 1000) as u64.  When the product overflows and wraps, the
\* cast to u64 gives the product back, as it is below 2^64; what a build
\* with overflow checks does instead is in read_commit.
signature_from_git(signature) ==
    [name |-> signature.name,
     email |-> signature.email,
     timestamp |-> [timestamp |-> mul_1000(signature.seconds),
                    tz_offset |-> signature.offset_minutes]]

-----------------------------------------------------------------------------
(* The extra metadata of a commit, as the protobuf message Commit with     *)
(* only is_open, change_id and predecessors set.  The wire form is the     *)
(* list of the fields written, in field order: a repeated field writes     *)
(* one entry per element, a singular field is left out when it holds its   *)
(* default (false, empty bytes).                                           *)

RECURSIVE PredecessorFields(_)
PredecessorFields(predecessors) ==
    IF predecessors = <<>> THEN <<>>
    ELSE <<[field |-> "predecessors", bytes |-> Head(predecessors)]>>
            \o PredecessorFields(Tail(predecessors))

\* Fault variant: the predecessors are left out of the record.
serialize_extras_without_predecessors(commit) ==
    (IF commit.change_id = <<>> THEN <<>>
     ELSE <<[field |-> "change_id", bytes |-> commit.change_id]>>)
    \o (IF commit.is_open THEN <<[field |-> "is_open"]>> ELSE <<>>)

serialize_extras(commit) ==
    PredecessorFields(commit.predecessors)
    \o (IF commit.change_id = <<>> THEN <<>>
        ELSE <<[field |-> "change_id", bytes |-> commit.change_id]>>)
    \o (IF commit.is_open THEN <<[field |-> "is_open"]>> ELSE <<>>)

\* Message::parse_from_reader: the message the wire form denotes.
RECURSIVE ParseProto(_, _)
ParseProto(fields, proto) ==
    IF fields = <<>> THEN proto
    ELSE LET f == Head(fields)
             next ==
                 IF f.field = "predecessors"
                 THEN [proto EXCEPT !.predecessors = Append(@, f.bytes)]
                 ELSE IF f.field = "change_id"
                 THEN [proto EXCEPT !.change_id = f.bytes]
                 ELSE [proto EXCEPT !.is_open = TRUE]
         IN  ParseProto(Tail(fields), next)

\* Fault variant: an empty stored change_id is taken for an absent one and
\* the derived change id is kept.
deserialize_extras_keeping_derived(commit, bytes) ==
    LET proto == ParseProto(bytes,
                    [is_open |-> FALSE, change_id |-> <<>>, predecessors |-> <<>>])
    IN  [commit EXCEPT !.is_open = proto.is_open,
                       !.change_id = IF proto.change_id = <<>> THEN @
                                     ELSE proto.change_id,
                       !.predecessors = @ \o proto.predecessors]

deserialize_extras(commit, bytes) ==
    LET proto == ParseProto(bytes,
                    [is_open |-> FALSE, change_id |-> <<>>, predecessors |-> <<>>])
    IN  [commit EXCEPT !.is_open = proto.is_open,
                       !.change_id = proto.change_id,
                       !.predecessors = @ \o proto.predecessors]

-----------------------------------------------------------------------------
(* The overlay table store (stacked_table::TableStore), by its contract:   *)
(* the head is a map from key to value, a mutable view is a copy of it,    *)
(* and save_table makes the view the new head.                             *)

get_head == extra

start_mutation(table) == table

get_value(table, key) ==
    IF key \in DOMAIN table THEN Some(table[key]) ELSE None

add_entry(mut_table, key, value) ==
    [k \in DOMAIN mut_table \cup {key} |->
        IF k = key THEN value ELSE mut_table[k]]

save_table(mut_table) == mut_table

-----------------------------------------------------------------------------
(* The Git object store (git2::Repository).                                *)

EmptyMap == <<>>

EmptyTreeObject == [kind |-> "tree", content |-> EmptyMap]

\* An object lookup.  libgit2 answers for the empty tree even when the
\* store holds no such object (the test commit_has_ref writes a commit on
\* the empty tree of a freshly initialised store).
odb_read(id) ==
    IF id \in DOMAIN objects THEN Some(objects[id])
    ELSE IF id = EmptyTreeId THEN Some(EmptyTreeObject)
    ELSE None

\* Oid::from_bytes fails on any length but the hash length.
OidFromBytesOk(bytes) == Len(bytes) = HASH_LENGTH

\* find_blob / find_tree / find_commit: the object, when it exists and is
\* of the kind asked for.
find_object(id, kind) ==
    LET o == odb_read(id)
    IN  IF o.some /\ o.v.kind = kind THEN o ELSE None

\* The Oid the store's hash gives to an object: the one it has when it is
\* stored already, the well-known one for the empty tree, else one no
\* stored object has.  The hash is a function, so the choice is not free:
\* the model takes the first unused Oid of OidOrder, and which object gets
\* which Oid then varies with the order of the writes.  No Oid is left when
\* the store is full (MaxObjects, MaxTrees): the write is then not taken.
OidsFor(object) ==
    IF object = EmptyTreeObject THEN {EmptyTreeId}
    ELSE IF \E o \in DOMAIN objects : objects[o] = object
    THEN {o \in DOMAIN objects : objects[o] = object}
    ELSE LET unused == {i \in DOMAIN OidOrder : OidOrder[i] \notin DOMAIN objects}
             trees == {o \in DOMAIN objects : objects[o].kind = "tree"}
         IN  IF /\ Cardinality(DOMAIN objects) < MaxObjects
                /\ object.kind = "tree" => Cardinality(trees) < MaxTrees
                /\ unused # {}
             THEN {OidOrder[CHOOSE i \in unused : \A j \in unused : i <= j]}
             ELSE {}

\* Fault variant: the object written takes the place of the others.
odb_write_replacing(id, object) == [o \in {id} |-> object]

odb_write(id, object) ==
    [o \in DOMAIN objects \cup {id} |-> IF o = id THEN object ELSE objects[o]]

-----------------------------------------------------------------------------
(* References.  A pinning reference is NO_GC_REF_NAMESPACE followed by a   *)
(* random UUID.  UUIDs are taken never to repeat, and nothing reads the    *)
(* name, so the model numbers them in the order they are drawn.            *)

NO_GC_REF_NAMESPACE == "refs/jj/keep/"

Uuids == 1..MaxRefs

\* Fault variant: the reference is made in refs/jj/, outside the namespace.
create_ref_outside_namespace(uuid) == [namespace |-> "refs/jj/", uuid |-> uuid]

create_no_gc_ref(uuid) == [namespace |-> NO_GC_REF_NAMESPACE, uuid |-> uuid]

\* Uuid::new_v4()
FreshUuids ==
    LET unused == {u \in Uuids : \A r \in DOMAIN refs : r.uuid # u}
    IN  {u \in unused : \A v \in unused : u <= v}

\* The same for the threads that race on one commit.
RaceUuids ==
    LET unused == {u \in 1..MaxRaceRefs : \A r \in DOMAIN refs : r.uuid # u}
    IN  {u \in unused : \A v \in unused : u <= v}

\* Fault variant: the new reference takes the place of the others.
reference_create_replacing(name, target) == [r \in {name} |-> target]

reference_create(name, target) ==
    [r \in DOMAIN refs \cup {name} |-> IF r = name THEN target ELSE refs[r]]

\* references_glob("refs/jj/keep/*"), as the targets of the matching refs
KeepRefs == {r \in DOMAIN refs : r.namespace = NO_GC_REF_NAMESPACE}

-----------------------------------------------------------------------------
(* read_commit and write_commit.                                           *)

\* The native commit of locked_repo.commit(..): what the commit id hashes.
git_commit_object(contents) ==
    [kind |-> "commit",
     content |-> [tree |-> contents.root_tree,
                  parents |-> contents.parents,
                  author |-> signature_to_git(contents.author),
                  committer |-> signature_to_git(contents.committer),
                  message |-> contents.description]]

\* The `?` on Oid::from_bytes and on find_commit of a parent.
lookup_error(id, kind) ==
    IF ~OidFromBytesOk(id) THEN Some(ErrOther("raw byte array must be 20 bytes", <<>>))
    ELSE IF ~find_object(id, kind).some THEN Some(ErrNotFound)
    ELSE None

RECURSIVE parents_error(_)
parents_error(parents) ==
    IF parents = <<>> THEN None
    ELSE LET e == lookup_error(Head(parents), "commit")
         IN  IF e.some THEN e ELSE parents_error(Tail(parents))

\* The early returns of write_commit before the native commit is written.
write_commit_early_error(contents) ==
    LET e == lookup_error(contents.root_tree, "tree")
    IN  IF e.some THEN e ELSE parents_error(contents.parents)

\* "Git commit '{}' already exists with different associated non-Git meta-data"
AlreadyExists(id) ==
    ErrOther("already exists with different associated non-Git meta-data", hex(id))

\* Fault variant: an existing record is never compared, and is overwritten.
extras_never_differ(mut_table, key, extras) == FALSE

\* Fault variant: any existing record is a collision, an equal one too.
extras_exist(mut_table, key, extras) == get_value(mut_table, key).some

\* if let Some(existing_extras) = .. { if existing_extras != extras {..} }
extras_differ(mut_table, key, extras) ==
    LET existing_extras == get_value(mut_table, key)
    IN  existing_extras.some /\ existing_extras.v # extras

\* Fault variant: a commit read without its overlay record counts as open.
commit_from_git_open(id, git) ==
    [parents |-> git.parents,
     predecessors |-> <<>>,
     root_tree |-> git.tree,
     change_id |-> derived_change_id(id),
     description |-> git.message,
     author |-> signature_from_git(git.author),
     committer |-> signature_from_git(git.committer),
     is_open |-> TRUE]

\* The Commit read_commit builds from the native commit alone.
commit_from_git(id, git) ==
    [parents |-> git.parents,
     predecessors |-> <<>>,
     root_tree |-> git.tree,
     change_id |-> derived_change_id(id),
     description |-> git.message,
     author |-> signature_from_git(git.author),
     committer |-> signature_from_git(git.committer),
     is_open |-> FALSE]

read_commit(id) ==
    IF Len(id) # HASH_LENGTH THEN ErrNotFound
    ELSE LET found == find_object(id, "commit")
         IN  IF ~found.some THEN ErrNotFound
             ELSE LET commit == commit_from_git(id, found.v.content)
                      table == get_head
                      maybe_extras == get_value(table, id)
                      read == IF maybe_extras.some
                              THEN deserialize_extras(commit, maybe_extras.v)
                              ELSE commit
                  IN  IF \/ seconds_overflow(found.v.content.author)
                         \/ seconds_overflow(found.v.content.committer)
                      THEN Overflow(read)
                      ELSE Ok(read)

-----------------------------------------------------------------------------
(* Trees.  A Tree maps entry names to TreeValues; a Git tree maps entry     *)
(* names to an Oid and a file mode.                                        *)

Normal(id, executable) ==
    [variant |-> "Normal", id |-> id, executable |-> executable]
Symlink(id) == [variant |-> "Symlink", id |-> id]
Tree(id) == [variant |-> "Tree", id |-> id]
GitSubmodule(id) == [variant |-> "GitSubmodule", id |-> id]
Conflict(id) == [variant |-> "Conflict", id |-> id]

CONFLICT_SUFFIX == <<".", "j", "j", "c", "o", "n", "f", "l", "i", "c", "t">>

\* The file modes, 0o100644, 0o100755, 0o120000, 0o040000 and 0o160000.
FILEMODE_BLOB == 33188
FILEMODE_BLOB_EXECUTABLE == 33261
FILEMODE_LINK == 40960
FILEMODE_TREE == 16384
FILEMODE_COMMIT == 57344

\* The characters of entry names, in byte order.
CharOrder == <<".", "/", "a", "b", "c", "f", "i", "j", "l", "n", "o", "t">>

CharIndex(c) == CHOOSE i \in DOMAIN CharOrder : CharOrder[i] = c

RECURSIVE NameLess(_, _)
NameLess(x, y) ==
    IF x = <<>> THEN y # <<>>
    ELSE IF y = <<>> THEN FALSE
    ELSE IF Head(x) = Head(y) THEN NameLess(Tail(x), Tail(y))
    ELSE CharIndex(Head(x)) < CharIndex(Head(y))

\* The names of a set in the order of sort_key[name], a sequence of
\* characters.
RECURSIVE SortedBy(_, _)
SortedBy(names, sort_key) ==
    IF names = {} THEN <<>>
    ELSE LET first == CHOOSE n \in names :
                        \A o \in names \ {n} : NameLess(sort_key[n], sort_key[o])
         IN  <<first>> \o SortedBy(names \ {first}, sort_key)

MapSet(map, key, value) ==
    [k \in DOMAIN map \cup {key} |-> IF k = key THEN value ELSE map[k]]

\* Tree::entries(): the names in the order of the map.
TreeEntryOrder(tree) == SortedBy(DOMAIN tree, [n \in DOMAIN tree |-> n])

\* The iteration of a Git tree: entries are ordered by name, a directory as
\* if its name ended with a slash.
GitTreeOrder(git_tree) ==
    SortedBy(DOMAIN git_tree,
             [n \in DOMAIN git_tree |->
                 IF git_tree[n].filemode = FILEMODE_TREE THEN n \o <<"/">> ELSE n])

\* Fault variant: an executable file is written with the mode of a plain one.
tree_entry_to_git_plain_mode(name, value) ==
    [name |-> IF value.variant = "Conflict" THEN name \o CONFLICT_SUFFIX ELSE name,
     id |-> value.id,
     filemode |-> IF value.variant = "Normal" THEN FILEMODE_BLOB
                  ELSE IF value.variant = "Symlink" THEN FILEMODE_LINK
                  ELSE IF value.variant = "Tree" THEN FILEMODE_TREE
                  ELSE IF value.variant = "GitSubmodule" THEN FILEMODE_COMMIT
                  ELSE FILEMODE_BLOB]

\* The match of write_tree: the name, id and file mode of a Git tree entry.
tree_entry_to_git(name, value) ==
    IF value.variant = "Normal" /\ ~value.executable
    THEN [name |-> name, id |-> value.id, filemode |-> FILEMODE_BLOB]
    ELSE IF value.variant = "Normal" /\ value.executable
    THEN [name |-> name, id |-> value.id, filemode |-> FILEMODE_BLOB_EXECUTABLE]
    ELSE IF value.variant = "Symlink"
    THEN [name |-> name, id |-> value.id, filemode |-> FILEMODE_LINK]
    ELSE IF value.variant = "Tree"
    THEN [name |-> name, id |-> value.id, filemode |-> FILEMODE_TREE]
    ELSE IF value.variant = "GitSubmodule"
    THEN [name |-> name, id |-> value.id, filemode |-> FILEMODE_COMMIT]
    ELSE [name |-> name \o CONFLICT_SUFFIX, id |-> value.id,
          filemode |-> FILEMODE_BLOB]

\* git_tree_entry_type: the kind of object a file mode stands for.
kind_of_filemode(filemode) ==
    IF filemode = FILEMODE_COMMIT THEN "commit"
    ELSE IF filemode = FILEMODE_TREE THEN "tree"
    ELSE "blob"

\* Whether builder.insert(name, Oid::from_bytes(id).unwrap(), filemode)
\* .unwrap() passes: the id has the hash length and, unless the entry is a
\* submodule, names a stored object of the kind of the file mode.
insert_ok(entry) ==
    /\ OidFromBytesOk(entry.id)
    /\ \/ entry.filemode = FILEMODE_COMMIT
       \/ find_object(entry.id, kind_of_filemode(entry.filemode)).some

\* The treebuilder after the inserts of write_tree, made in the order of the
\* Tree's entries; an insert under a name already there replaces the entry.
RECURSIVE build_tree(_, _, _)
build_tree(contents, names, builder) ==
    IF names = <<>> THEN builder
    ELSE LET e == tree_entry_to_git(Head(names), contents[Head(names)])
         IN  build_tree(contents, Tail(names),
                        MapSet(builder, e.name, [id |-> e.id, filemode |-> e.filemode]))

write_tree_aborts(contents) ==
    \E n \in DOMAIN contents : ~insert_ok(tree_entry_to_git(n, contents[n]))

git_tree_object(contents) ==
    [kind |-> "tree",
     content |-> build_tree(contents, TreeEntryOrder(contents), EmptyMap)]

\* The match of read_tree on the kind and mode of a Git tree entry: the
\* name and value of the Tree entry, or an abort on a mode it does not know.
tree_entry_from_git(name, entry) ==
    IF entry.filemode = FILEMODE_TREE
    THEN Some([name |-> name, value |-> Tree(entry.id)])
    ELSE IF entry.filemode = FILEMODE_COMMIT
    THEN Some([name |-> name, value |-> GitSubmodule(entry.id)])
    ELSE IF entry.filemode = FILEMODE_BLOB
    THEN IF EndsWith(name, CONFLICT_SUFFIX)
         THEN Some([name |-> SubSeq(name, 1, Len(name) - Len(CONFLICT_SUFFIX)),
                    value |-> Conflict(entry.id)])
         ELSE Some([name |-> name, value |-> Normal(entry.id, FALSE)])
    ELSE IF entry.filemode = FILEMODE_BLOB_EXECUTABLE
    THEN Some([name |-> name, value |-> Normal(entry.id, TRUE)])
    ELSE IF entry.filemode = FILEMODE_LINK
    THEN Some([name |-> name, value |-> Symlink(entry.id)])
    ELSE None

\* The loop of read_tree: tree.set(name, value) for each Git entry in turn.
RECURSIVE decode_tree(_, _, _)
decode_tree(git_tree, names, tree) ==
    IF names = <<>> THEN Ok(tree)
    ELSE LET e == tree_entry_from_git(Head(names), git_tree[Head(names)])
         IN  IF ~e.some THEN Panic
             ELSE decode_tree(git_tree, Tail(names),
                              MapSet(tree, e.v.name, e.v.value))

read_tree(id) ==
    IF id = EmptyTreeId THEN Ok(EmptyMap)
    ELSE IF Len(id) # HASH_LENGTH THEN ErrNotFound
    ELSE LET git_tree == find_object(id, "tree")
         IN  IF ~git_tree.some THEN Panic
             ELSE decode_tree(git_tree.v.content,
                              GitTreeOrder(git_tree.v.content), EmptyMap)

-----------------------------------------------------------------------------
(* Blobs and files.  The content of a blob is a byte string: plain bytes,  *)
(* or the text of a JSON document, kept as the document it denotes         *)
(* (json.to_string() and serde_json::from_str are inverse on documents,    *)
(* and plain bytes of the model are no JSON text).                         *)

PlainBytes(bytes) == [form |-> "bytes", data |-> bytes]

\* json.to_string().as_bytes()
json_to_string(json) == [form |-> "json", data |-> json]

\* serde_json::from_str(&data): the document, or none when the text is no
\* JSON (the unwrap() then aborts).
json_from_str(content) ==
    IF content.form = "json" THEN Some(content.data) ELSE None

git_blob_object(bytes) == [kind |-> "blob", content |-> bytes]

\* Fault variant: the path is hashed with the content.
blob_written_with_path(path, bytes) ==
    [kind |-> "blob", content |-> [form |-> "bytes", data |-> <<path, bytes>>]]

\* write_file and write_symlink: locked_repo.blob(..) of the bytes; the
\* _path argument is not used.
blob_written(path, bytes) == git_blob_object(bytes)

read_file(id) ==
    IF Len(id) # HASH_LENGTH THEN ErrNotFound
    ELSE LET blob == find_object(id, "blob")
         IN  IF ~blob.some THEN Panic ELSE Ok(blob.v.content)

\* Symlinks are blobs that hold the bytes of the target; the targets of
\* the model are well-formed UTF-8, so String::from_utf8 gives them back.
read_symlink(id) ==
    IF Len(id) # HASH_LENGTH THEN ErrNotFound
    ELSE LET blob == find_object(id, "blob")
         IN  IF ~blob.some THEN Panic ELSE Ok(blob.v.content)

-----------------------------------------------------------------------------
(* Conflicts and their JSON documents (serde_json::Value).                 *)

JString(s) == [t |-> "String", v |-> s]
JBool(b) == [t |-> "Bool", v |-> b]
JArray(a) == [t |-> "Array", v |-> a]
JObject(o) == [t |-> "Object", v |-> o]

\* json.get(key)
json_get(json, key) ==
    IF json.t = "Object" /\ key \in DOMAIN json.v THEN Some(json.v[key]) ELSE None

\* Fault variant: the executable flag is not written, false is.
tree_value_to_json_dropping_executable(value) ==
    IF value.variant = "Normal"
    THEN JObject([file |-> JObject([id |-> JString(hex(value.id)),
                                    executable |-> JBool(FALSE)])])
    ELSE IF value.variant = "Symlink"
    THEN JObject([symlink_id |-> JString(hex(value.id))])
    ELSE IF value.variant = "Tree"
    THEN JObject([tree_id |-> JString(hex(value.id))])
    ELSE IF value.variant = "GitSubmodule"
    THEN JObject([submodule_id |-> JString(hex(value.id))])
    ELSE JObject([conflict_id |-> JString(hex(value.id))])

tree_value_to_json(value) ==
    IF value.variant = "Normal"
    THEN JObject([file |-> JObject([id |-> JString(hex(value.id)),
                                    executable |-> JBool(value.executable)])])
    ELSE IF value.variant = "Symlink"
    THEN JObject([symlink_id |-> JString(hex(value.id))])
    ELSE IF value.variant = "Tree"
    THEN JObject([tree_id |-> JString(hex(value.id))])
    ELSE IF value.variant = "GitSubmodule"
    THEN JObject([submodule_id |-> JString(hex(value.id))])
    ELSE JObject([conflict_id |-> JString(hex(value.id))])

conflict_part_to_json(part) ==
    JObject([value |-> tree_value_to_json(part.value)])

conflict_part_list_to_json(parts) ==
    JArray([i \in 1..Len(parts) |-> conflict_part_to_json(parts[i])])

\* The decoders give Some(value), or None where an unwrap() or panic!
\* aborts the call.

\* hex::decode(value.as_str().unwrap()).unwrap()
bytes_vec_from_json(value) ==
    IF value.t = "String" /\ IsHexText(value.v)
    THEN Some(hex_decode(value.v)) ELSE None

file_from_json(json_file) ==
    LET id == json_get(json_file, "id")
        executable == json_get(json_file, "executable")
    IN  IF id.some /\ bytes_vec_from_json(id.v).some
           /\ executable.some /\ executable.v.t = "Bool"
        THEN Some(Normal(bytes_vec_from_json(id.v).v, executable.v.v))
        ELSE None

id_from_json(json_id, variant) ==
    LET bytes == bytes_vec_from_json(json_id)
    IN  IF bytes.some THEN Some([variant |-> variant, id |-> bytes.v]) ELSE None

\* The if-let chain: the first of the five keys the value has decides.
tree_value_from_json(json) ==
    IF json_get(json, "file").some
    THEN file_from_json(json_get(json, "file").v)
    ELSE IF json_get(json, "symlink_id").some
    THEN id_from_json(json_get(json, "symlink_id").v, "Symlink")
    ELSE IF json_get(json, "tree_id").some
    THEN id_from_json(json_get(json, "tree_id").v, "Tree")
    ELSE IF json_get(json, "submodule_id").some
    THEN id_from_json(json_get(json, "submodule_id").v, "GitSubmodule")
    ELSE IF json_get(json, "conflict_id").some
    THEN id_from_json(json_get(json, "conflict_id").v, "Conflict")
    ELSE None

conflict_part_from_json(json) ==
    LET json_value == json_get(json, "value")
    IN  IF json_value.some /\ tree_value_from_json(json_value.v).some
        THEN Some([value |-> tree_value_from_json(json_value.v).v])
        ELSE None

conflict_part_list_from_json(json) ==
    IF json.t = "Array"
       /\ \A i \in DOMAIN json.v : conflict_part_from_json(json.v[i]).some
    THEN Some([i \in DOMAIN json.v |-> conflict_part_from_json(json.v[i]).v])
    ELSE None

\* The document write_conflict writes.
conflict_to_json(conflict) ==
    JObject([removes |-> conflict_part_list_to_json(conflict.removes),
             adds |-> conflict_part_list_to_json(conflict.adds)])

git_conflict_object(conflict) ==
    git_blob_object(json_to_string(conflict_to_json(conflict)))

\* read_conflict after read_file has returned the data of the blob.
conflict_from_data(data) ==
    LET json == json_from_str(data)
    IN  IF ~json.some THEN Panic
        ELSE LET removes == json_get(json.v, "removes")
                 adds == json_get(json.v, "adds")
             IN  IF /\ removes.some
                    /\ adds.some
                    /\ conflict_part_list_from_json(removes.v).some
                    /\ conflict_part_list_from_json(adds.v).some
                 THEN Ok([removes |-> conflict_part_list_from_json(removes.v).v,
                          adds |-> conflict_part_list_from_json(adds.v).v])
                 ELSE Panic

read_conflict(id) ==
    LET file == read_file(id)
    IN  IF ~IsOk(file) THEN file ELSE conflict_from_data(file.val)


-----------------------------------------------------------------------------
(* The arguments the calls are made with.                                  *)

SignatureAt(millis, tz) ==
    [name |-> "Someone", email |-> "someone@example.com",
     timestamp |-> [timestamp |-> millis, tz_offset |-> tz]]

CommitterSignatures == {SignatureAt(<<1, 500>>, -480)}

StoredIds(kind) == {o \in DOMAIN objects : objects[o].kind = kind}

\* The metadata the Git commit cannot hold: all defaults, each field alone
\* off its default, and all of them off it.
ExtraChoices ==
    {[is_open |-> FALSE, change_id |-> <<>>, predecessors |-> <<>>],
     [is_open |-> TRUE, change_id |-> <<>>, predecessors |-> <<>>],
     [is_open |-> FALSE, change_id |-> ChangeIdOfOidA, predecessors |-> <<>>],
     [is_open |-> FALSE, change_id |-> <<>>, predecessors |-> <<OidB, OidA>>],
     [is_open |-> TRUE, change_id |-> <<7>>, predecessors |-> <<OidA>>]}

WellFormedCommits ==
    {[parents |-> ps, predecessors |-> e.predecessors, root_tree |-> EmptyTreeId,
      change_id |-> e.change_id, description |-> "initial",
      author |-> SignatureAt(<<0>>, 0), committer |-> c, is_open |-> e.is_open] :
        ps \in {<<>>} \cup {<<p>> : p \in StoredIds("commit")},
        e \in ExtraChoices,
        c \in CommitterSignatures}

InitialCommit ==
    [parents |-> <<>>, predecessors |-> <<>>, root_tree |-> EmptyTreeId,
     change_id |-> <<>>, description |-> "initial", author |-> SignatureAt(<<0>>, 0),
     committer |-> SignatureAt(<<0>>, 0), is_open |-> FALSE]

\* Commits on a tree or parent that is missing or whose id is malformed.
IllFormedCommits ==
    {[InitialCommit EXCEPT !.root_tree = t] : t \in {DanglingOid, ShortId}}
    \cup {[InitialCommit EXCEPT !.parents = <<p>>] : p \in {DanglingOid, ShortId}}

CommitInputs == WellFormedCommits \cup IllFormedCommits

\* Timestamps on and off a whole second, small and at the ends of the
\* ranges of i64 and u64, and time zone offsets west and east.
MillisInputs ==
    {<<0>>, <<999>>, <<1, 0>>, <<1, 500>>, <<1, 999>>,
     <<9, 223, 372, 36, 854, 775, 999>>,
     <<9, 223, 372, 36, 854, 776, 0>>,
     U64_MAX}

OffsetInputs == {0, -480, 330}

TimeCommits ==
    {[InitialCommit EXCEPT !.author = SignatureAt(m, z)] :
        m \in MillisInputs, z \in OffsetInputs}
    \cup {[InitialCommit EXCEPT !.committer = SignatureAt(<<1, 999>>, -480)]}

CommitIdInputs == OidPool \cup {DanglingOid, ShortId}

FileContents == {PlainBytes(<<104, 105>>)}

\* Lists of conflict parts: none, two and four parts, every variant of
\* TreeValue among them, ids of the hash length and of other lengths.
PartLists ==
    {<<>>,
     <<[value |-> Normal(ShortId, FALSE)], [value |-> Conflict(OidB)]>>,
     <<[value |-> Symlink(<<>>)], [value |-> Normal(ShortId, TRUE)],
       [value |-> Tree(<<7>>)], [value |-> GitSubmodule(ShortId)]>>}

ConflictInputs == [removes : PartLists, adds : PartLists]

\* A plain name, and a name that ends with the conflict suffix.
NameChoices == {<<"a">>, <<"a">> \o CONFLICT_SUFFIX}

\* The values an entry of a well-formed Tree can have: files, symlinks and
\* conflicts on stored blobs, stored trees and the empty tree, a submodule
\* on a commit of another repository.  The entry whose name ends with the
\* conflict suffix is given the values on blobs only.
BlobValueChoices ==
    UNION {{Normal(b, FALSE), Normal(b, TRUE), Symlink(b), Conflict(b)} :
              b \in StoredIds("blob")}

TreeValueChoices ==
    BlobValueChoices
    \cup {Tree(t) : t \in StoredIds("tree") \cup {EmptyTreeId}}
    \cup {GitSubmodule(DanglingOid)}

WellFormedTrees ==
    UNION {{t \in [names -> TreeValueChoices] :
               \A n \in names :
                  EndsWith(n, CONFLICT_SUFFIX) => t[n] \in BlobValueChoices} :
              names \in SUBSET NameChoices}

\* Trees with an entry whose object is missing, is of another kind, or
\* whose id is malformed.
IllFormedTrees ==
    {[n \in {<<"a">>} |-> v] :
        v \in {Normal(DanglingOid, FALSE), Tree(DanglingOid), Symlink(ShortId)}
              \cup {Tree(b) : b \in StoredIds("blob")}}

TreeInputs == WellFormedTrees \cup IllFormedTrees

ObjectIdInputs == OidPool \cup {EmptyTreeId, DanglingOid, ShortId}

Call(op, arg, res) == [op |-> op, arg |-> arg, res |-> res]

\* The threads that share the backend.
Threads == {"t1", "t2"}

\* A thread that has made no call yet.
Idle == [op |-> "none", arg |-> <<>>, at |-> "idle", local |-> <<>>, res |-> Ok(<<>>)]

\* Commits that differ in their extra metadata only: one native commit.
RaceCommits ==
    {InitialCommit,
     [InitialCommit EXCEPT !.is_open = TRUE],
     [InitialCommit EXCEPT !.change_id = <<7>>]}

\* Values of conflict parts as documents: with one tag, none, and two.
TagTree == JObject([tree_id |-> JString(hex(ShortId))])

TagNone == JObject([id |-> JString(hex(ShortId))])

TagFileAndSymlink ==
    JObject([file |-> JObject([id |-> JString(hex(ShortId)),
                               executable |-> JBool(FALSE)]),
             symlink_id |-> JString(hex(OidB))])

TagSymlinkAndConflict ==
    JObject([symlink_id |-> JString(hex(ShortId)),
             conflict_id |-> JString(hex(OidB))])

PartDocument(value) == JArray(<<JObject([value |-> value])>>)

\* The bytes of JSON documents that a file can hold: a conflict as
\* write_conflict writes it, and documents that it does not write.
DocumentInputs ==
    {json_to_string(doc) :
        doc \in {JObject([removes |-> JArray(<<>>), adds |-> PartDocument(TagTree)]),
                 JObject([removes |-> PartDocument(TagNone), adds |-> JArray(<<>>)]),
                 JObject([removes |-> PartDocument(TagFileAndSymlink),
                          adds |-> JArray(<<>>)]),
                 JObject([removes |-> JArray(<<>>),
                          adds |-> PartDocument(TagSymlinkAndConflict)]),
                 JObject([adds |-> PartDocument(TagTree)]),
                 JObject([removes |-> PartDocument(TagTree)])}}

\* Trees and conflicts for the workload of all the operations: the empty
\* tree, a tree on a stored file, a tree whose write aborts.
FrameTrees ==
    {EmptyMap}
    \cup {[n \in {<<"a">>} |-> v] :
            v \in {Normal(b, FALSE) : b \in StoredIds("blob")} \cup {Tree(DanglingOid)}}

FrameConflicts ==
    {[removes |-> <<>>, adds |-> <<[value |-> Normal(ShortId, TRUE)]>>]}

\* The paths the calls are given.
Paths == {"dir/file", "other"}

\* The targets of symlinks.
SymlinkTargets == {PlainBytes(<<47, 97>>)}

\* The calls of the threads that share the lock: every operation, with an
\* argument it serves and, for the reads, arguments it fails on.
LockCalls ==
    {[op |-> "write_file", arg |-> bytes] : bytes \in FileContents}
    \cup {[op |-> "write_symlink", arg |-> target] : target \in SymlinkTargets}
    \cup {[op |-> "write_tree", arg |-> EmptyMap],
          [op |-> "write_conflict", arg |-> [removes |-> <<>>, adds |-> <<>>]],
          [op |-> "write_commit", arg |-> InitialCommit]}
    \cup {[op |-> "read_file", arg |-> id] : id \in {OidA, DanglingOid}}
    \cup {[op |-> "read_tree", arg |-> id] : id \in {EmptyTreeId, OidA, ShortId}}
    \cup {[op |-> op, arg |-> OidA] :
             op \in {"read_symlink", "read_conflict", "read_commit"}}

\* The calls of the threads that race on one commit.
RaceCalls ==
    {[op |-> "write_commit", arg |-> c] : c \in RaceCommits}
    \cup {[op |-> "read_commit", arg |-> id] : id \in {OidA, ShortId}}

-----------------------------------------------------------------------------
(* The state machine.                                                      *)

\* GitBackend::init_internal: an empty Git repository and an empty overlay.
Init ==
    /\ objects = EmptyMap
    /\ refs = EmptyMap
    /\ extra = EmptyMap
    /\ ret = Call("init", <<>>, Ok(<<>>))
    /\ written = {}
    /\ lock = "free"
    /\ pc = [t \in Threads |-> Idle]

WriteCommitOf(inputs) ==
    /\ UNCHANGED threads
    /\ \E contents \in inputs :
        LET early == write_commit_early_error(contents)
            object == git_commit_object(contents)
        IN  IF early.some
            THEN /\ ret' = Call("write_commit", contents, early.v)
                 /\ UNCHANGED <<objects, refs, extra, written>>
            ELSE \E git_id \in OidsFor(object), uuid \in FreshUuids :
                    LET extras == serialize_extras(contents)
                        mut_table == start_mutation(get_head)
                    IN  /\ objects' = odb_write(git_id, object)
                        /\ refs' = reference_create(create_no_gc_ref(uuid), git_id)
                        /\ IF extras_differ(mut_table, git_id, extras)
                           THEN /\ ret' = Call("write_commit", contents,
                                               AlreadyExists(git_id))
                                /\ UNCHANGED <<extra, written>>
                           ELSE /\ extra' = save_table(add_entry(mut_table, git_id, extras))
                                /\ ret' = Call("write_commit", contents, Ok(git_id))
                                /\ written' = written \cup
                                      {[contents |-> contents, id |-> git_id]}

WriteCommit == WriteCommitOf(CommitInputs)

\* write_commit of commits over the range of the timestamps.
WriteCommitAt == WriteCommitOf(TimeCommits)

ReadCommit ==
    /\ UNCHANGED threads
    /\ \E id \in CommitIdInputs :
        \E res \in build_outcomes(read_commit(id)) :
            /\ ret' = Call("read_commit", id, res)
        /\ UNCHANGED <<objects, refs, extra, written>>

\* A commit written by Git itself, with no reference and no overlay record
\* (git_repo.commit(None, ..) of the test read_plain_git_commit).
GitCommit ==
    /\ UNCHANGED threads
    /\ \E contents \in {c \in WellFormedCommits : c.predecessors = <<>>
                                               /\ c.change_id = <<>> /\ ~c.is_open} :
        \E git_id \in OidsFor(git_commit_object(contents)) :
            /\ objects' = odb_write(git_id, git_commit_object(contents))
            /\ ret' = Call("git_commit", contents, Ok(git_id))
            /\ UNCHANGED <<refs, extra, written>>

\* write_file and write_symlink; the calls are kept in written with the
\* path they were given.
WriteBlobOf(op, paths, inputs) ==
    /\ UNCHANGED threads
    /\ \E path \in paths, bytes \in inputs :
        \E oid \in OidsFor(blob_written(path, bytes)) :
            /\ objects' = odb_write(oid, blob_written(path, bytes))
            /\ ret' = Call(op, bytes, Ok(oid))
            /\ written' = written \cup
                  {[contents |-> [op |-> op, path |-> path, bytes |-> bytes],
                    id |-> oid]}
            /\ UNCHANGED <<refs, extra>>

WriteFile == WriteBlobOf("write_file", {"file"}, FileContents)

WriteSymlink == WriteBlobOf("write_symlink", {"link"}, SymlinkTargets)

\* The same with several paths and contents.
WriteFileAt == WriteBlobOf("write_file", Paths, FileContents \cup SymlinkTargets)

WriteSymlinkAt == WriteBlobOf("write_symlink", Paths, FileContents \cup SymlinkTargets)

\* write_file of the bytes of JSON documents.
WriteFileDocument == WriteBlobOf("write_file", {"file"}, DocumentInputs)

ReadSymlink ==
    /\ UNCHANGED threads
    /\ \E id \in ObjectIdInputs :
        /\ ret' = Call("read_symlink", id, read_symlink(id))
        /\ UNCHANGED <<objects, refs, extra, written>>

WriteTreeOf(inputs) ==
    /\ UNCHANGED threads
    /\ \E contents \in inputs :
        IF write_tree_aborts(contents)
        THEN /\ ret' = Call("write_tree", contents, Panic)
             /\ UNCHANGED <<objects, refs, extra, written>>
        ELSE \E oid \in OidsFor(git_tree_object(contents)) :
                /\ objects' = odb_write(oid, git_tree_object(contents))
                /\ ret' = Call("write_tree", contents, Ok(oid))
                /\ UNCHANGED <<refs, extra, written>>

WriteTree == WriteTreeOf(TreeInputs)

ReadFile ==
    /\ UNCHANGED threads
    /\ \E id \in ObjectIdInputs :
        /\ ret' = Call("read_file", id, read_file(id))
        /\ UNCHANGED <<objects, refs, extra, written>>

WriteConflictOf(inputs) ==
    /\ UNCHANGED threads
    /\ \E conflict \in inputs :
        \E oid \in OidsFor(git_conflict_object(conflict)) :
            /\ objects' = odb_write(oid, git_conflict_object(conflict))
            /\ ret' = Call("write_conflict", conflict, Ok(oid))
            /\ UNCHANGED <<refs, extra, written>>

WriteConflict == WriteConflictOf(ConflictInputs)

\* The writes of the workload of all the operations.
WriteTreeIn == WriteTreeOf(FrameTrees)

WriteConflictIn == WriteConflictOf(FrameConflicts)

WriteCommitIn == WriteCommitOf(RaceCommits \cup IllFormedCommits)

ReadConflict ==
    /\ UNCHANGED threads
    /\ \E id \in ObjectIdInputs :
        /\ ret' = Call("read_conflict", id, read_conflict(id))
        /\ UNCHANGED <<objects, refs, extra, written>>

ReadTree ==
    /\ UNCHANGED threads
    /\ \E id \in ObjectIdInputs :
        /\ ret' = Call("read_tree", id, read_tree(id))
        /\ UNCHANGED <<objects, refs, extra, written>>

NextCommit == WriteCommit \/ ReadCommit \/ GitCommit

SpecCommit == Init /\ [][NextCommit]_vars

NextTime == WriteCommitAt \/ ReadCommit

SpecTime == Init /\ [][NextTime]_vars

NextAddress == WriteFileAt \/ WriteSymlinkAt \/ ReadFile \/ ReadSymlink

SpecAddress == Init /\ [][NextAddress]_vars

NextDecode == WriteFileDocument \/ WriteFile \/ ReadConflict

SpecDecode == Init /\ [][NextDecode]_vars

NextFrame ==
    \/ WriteFile \/ WriteSymlink \/ WriteTreeIn \/ WriteConflictIn \/ WriteCommitIn
    \/ ReadFile \/ ReadSymlink \/ ReadTree \/ ReadConflict \/ ReadCommit

SpecFrame == Init /\ [][NextFrame]_vars

NextTree == WriteFile \/ WriteTree \/ ReadTree

SpecTree == Init /\ [][NextTree]_vars

NextBlob == WriteFile \/ ReadFile \/ WriteConflict \/ ReadConflict

SpecBlob == Init /\ [][NextBlob]_vars

Next == NextCommit \/ NextTree \/ NextBlob

Spec == Init /\ [][Next]_vars

-----------------------------------------------------------------------------
(* The calls of concurrent threads, step by step.  A thread enters a call, *)
(* returns early or takes the Mutex of the repository (or aborts on a      *)
(* poisoned Mutex), makes its accesses to the store, and returns; the      *)
(* MutexGuard is dropped when the function that took it returns, and a     *)
(* panic while it is held poisons the Mutex and ends the thread.           *)

At(t, op, at) == pc[t].op = op /\ pc[t].at = at

Goto(t, at, local, res) ==
    pc' = [pc EXCEPT ![t] = [@ EXCEPT !.at = at, !.local = local, !.res = res]]

\* Fault variant: read_tree looks every id up in the store.
no_short_circuit(id) == FALSE

\* if id == &self.empty_tree_id { return Ok(Tree::default()); }
empty_tree_short_circuit(id) == id = EmptyTreeId

\* The returns a call makes before it takes the Mutex.
early_return(op, arg) ==
    IF op = "read_tree" /\ empty_tree_short_circuit(arg) THEN Some(Ok(EmptyMap))
    ELSE IF /\ op \in {"read_file", "read_symlink", "read_tree",
                       "read_commit", "read_conflict"}
            /\ Len(arg) # HASH_LENGTH
    THEN Some(ErrNotFound)
    ELSE None

CallRace(t) ==
    /\ pc[t].at \in {"idle", "returned"}
    /\ \E call \in RaceCalls :
          pc' = [pc EXCEPT ![t] = [Idle EXCEPT !.op = call.op, !.arg = call.arg,
                                               !.at = "entered"]]
    /\ UNCHANGED <<objects, refs, extra, ret, written, lock>>

EarlyReturn(t) ==
    /\ pc[t].at = "entered"
    /\ early_return(pc[t].op, pc[t].arg).some
    /\ Goto(t, "done", <<>>, early_return(pc[t].op, pc[t].arg).v)
    /\ UNCHANGED <<objects, refs, extra, ret, written, lock>>

\* Fault variant: the Mutex is taken whoever holds it.
lock_always_free(state) == state # "poisoned"

\* self.repo.lock() returns when no thread holds the Mutex.
lock_is_free(state) == state = "free"

\* self.repo.lock().unwrap()
Acquire(t) ==
    /\ pc[t].at = "entered"
    /\ ~early_return(pc[t].op, pc[t].arg).some
    /\ lock_is_free(lock)
    /\ lock' = t
    /\ Goto(t, "locked", <<>>, pc[t].res)
    /\ UNCHANGED <<objects, refs, extra, ret, written>>

\* self.repo.lock().unwrap() on a poisoned Mutex
AcquirePoisoned(t) ==
    /\ pc[t].at = "entered"
    /\ ~early_return(pc[t].op, pc[t].arg).some
    /\ lock = "poisoned"
    /\ Goto(t, "done", <<>>, Panic)
    /\ UNCHANGED <<objects, refs, extra, ret, written, lock>>

\* write_commit: the lookups and the native commit with its reference.
WriteCommitNative(t) ==
    /\ At(t, "write_commit", "locked")
    /\ LET contents == pc[t].arg
           early == write_commit_early_error(contents)
           object == git_commit_object(contents)
       IN  IF early.some
           THEN /\ Goto(t, "done", <<>>, early.v)
                /\ UNCHANGED <<objects, refs>>
           ELSE \E git_id \in OidsFor(object), uuid \in RaceUuids :
                   /\ objects' = odb_write(git_id, object)
                   /\ refs' = reference_create(create_no_gc_ref(uuid), git_id)
                   /\ Goto(t, "committed", [git_id |-> git_id], pc[t].res)
    /\ UNCHANGED <<extra, ret, written, lock>>

\* write_commit: get_head().unwrap().start_mutation()
WriteCommitGetHead(t) ==
    /\ At(t, "write_commit", "committed")
    /\ Goto(t, "mutating",
            [git_id |-> pc[t].local.git_id, mut_table |-> start_mutation(get_head)],
            pc[t].res)
    /\ UNCHANGED <<objects, refs, extra, ret, written, lock>>

\* write_commit: the collision check and add_entry
WriteCommitCheck(t) ==
    /\ At(t, "write_commit", "mutating")
    /\ LET git_id == pc[t].local.git_id
           mut_table == pc[t].local.mut_table
           extras == serialize_extras(pc[t].arg)
       IN  IF extras_differ(mut_table, git_id, extras)
           THEN Goto(t, "done", <<>>, AlreadyExists(git_id))
           ELSE Goto(t, "added",
                     [git_id |-> git_id,
                      mut_table |-> add_entry(mut_table, git_id, extras)],
                     pc[t].res)
    /\ UNCHANGED <<objects, refs, extra, ret, written, lock>>

\* write_commit: save_table(mut_table).unwrap()
WriteCommitSave(t) ==
    /\ At(t, "write_commit", "added")
    /\ extra' = save_table(pc[t].local.mut_table)
    /\ written' = written \cup {[contents |-> pc[t].arg, id |-> pc[t].local.git_id]}
    /\ Goto(t, "done", <<>>, Ok(pc[t].local.git_id))
    /\ UNCHANGED <<objects, refs, ret, lock>>

\* read_commit: find_commit and the Commit built from it
ReadCommitFind(t) ==
    /\ At(t, "read_commit", "locked")
    /\ LET found == find_object(pc[t].arg, "commit")
           commit == commit_from_git(pc[t].arg, found.v.content)
       IN  IF ~found.some
           THEN Goto(t, "done", <<>>, ErrNotFound)
           ELSE \E res \in build_outcomes(
                              IF \/ seconds_overflow(found.v.content.author)
                                 \/ seconds_overflow(found.v.content.committer)
                              THEN Overflow(commit) ELSE Ok(commit)) :
                    IF res = Panic
                    THEN Goto(t, "done", <<>>, Panic)
                    ELSE Goto(t, "found", res.val, pc[t].res)
    /\ UNCHANGED <<objects, refs, extra, ret, written, lock>>

\* read_commit: get_head, get_value and deserialize_extras
ReadCommitOverlay(t) ==
    /\ At(t, "read_commit", "found")
    /\ LET maybe_extras == get_value(get_head, pc[t].arg)
       IN  Goto(t, "done", <<>>,
                Ok(IF maybe_extras.some
                   THEN deserialize_extras(pc[t].local, maybe_extras.v)
                   ELSE pc[t].local))
    /\ UNCHANGED <<objects, refs, extra, ret, written, lock>>

\* The function returns: the guard it holds is dropped, and a panic that
\* unwinds through the guard poisons the Mutex and ends the thread.
Return(t) ==
    /\ pc[t].at = "done"
    /\ lock' = IF lock # t THEN lock
               ELSE IF pc[t].res = Panic THEN "poisoned" ELSE "free"
    /\ Goto(t, IF pc[t].res = Panic THEN "panicked" ELSE "returned", <<>>, pc[t].res)
    /\ UNCHANGED <<objects, refs, extra, ret, written>>

CallLock(t) ==
    /\ pc[t].at \in {"idle", "returned"}
    /\ \E call \in LockCalls :
          pc' = [pc EXCEPT ![t] = [Idle EXCEPT !.op = call.op, !.arg = call.arg,
                                               !.at = "entered"]]
    /\ UNCHANGED <<objects, refs, extra, ret, written, lock>>

\* The object a write call writes.
written_object(op, arg) ==
    IF op = "write_tree" THEN git_tree_object(arg)
    ELSE IF op = "write_conflict" THEN git_conflict_object(arg)
    ELSE git_blob_object(arg)

\* The result of a read call, from the store.
read_result(op, arg) ==
    IF op = "read_file" THEN read_file(arg)
    ELSE IF op = "read_symlink" THEN read_symlink(arg)
    ELSE read_tree(arg)

\* The file, symlink, tree and conflict calls, with the lock held.
StoreCall(t) ==
    /\ pc[t].at = "locked"
    /\ \/ /\ pc[t].op \in {"read_file", "read_symlink", "read_tree"}
          /\ Goto(t, "done", <<>>, read_result(pc[t].op, pc[t].arg))
          /\ UNCHANGED objects
       \/ /\ pc[t].op = "write_tree"
          /\ write_tree_aborts(pc[t].arg)
          /\ Goto(t, "done", <<>>, Panic)
          /\ UNCHANGED objects
       \/ /\ pc[t].op \in {"write_file", "write_symlink", "write_tree", "write_conflict"}
          /\ pc[t].op = "write_tree" => ~write_tree_aborts(pc[t].arg)
          /\ \E oid \in OidsFor(written_object(pc[t].op, pc[t].arg)) :
                /\ objects' = odb_write(oid, written_object(pc[t].op, pc[t].arg))
                /\ Goto(t, "done", <<>>, Ok(oid))
    /\ UNCHANGED <<refs, extra, ret, written, lock>>

\* read_conflict: its call of read_file, whose guard is dropped when
\* read_file returns the data.
ReadConflictFile(t) ==
    /\ At(t, "read_conflict", "locked")
    /\ LET file == read_file(pc[t].arg)
       IN  IF ~IsOk(file)
           THEN Goto(t, "done", <<>>, file) /\ UNCHANGED lock
           ELSE Goto(t, "decoding", file.val, pc[t].res) /\ lock' = "free"
    /\ UNCHANGED <<objects, refs, extra, ret, written>>

\* read_conflict: the decoding of the data
ReadConflictDecode(t) ==
    /\ At(t, "read_conflict", "decoding")
    /\ Goto(t, "done", <<>>, conflict_from_data(pc[t].local))
    /\ UNCHANGED <<objects, refs, extra, ret, written, lock>>

NextLock ==
    \E t \in Threads :
        \/ CallLock(t)
        \/ EarlyReturn(t)
        \/ Acquire(t)
        \/ AcquirePoisoned(t)
        \/ StoreCall(t)
        \/ ReadConflictFile(t)
        \/ ReadConflictDecode(t)
        \/ WriteCommitNative(t)
        \/ WriteCommitGetHead(t)
        \/ WriteCommitCheck(t)
        \/ WriteCommitSave(t)
        \/ ReadCommitFind(t)
        \/ ReadCommitOverlay(t)
        \/ Return(t)

SpecLock == Init /\ [][NextLock]_vars

NextRace ==
    \E t \in Threads :
        \/ CallRace(t)
        \/ EarlyReturn(t)
        \/ Acquire(t)
        \/ WriteCommitNative(t)
        \/ WriteCommitGetHead(t)
        \/ WriteCommitCheck(t)
        \/ WriteCommitSave(t)
        \/ ReadCommitFind(t)
        \/ ReadCommitOverlay(t)
        \/ Return(t)

SpecRace == Init /\ [][NextRace]_vars

-----------------------------------------------------------------------------
(* Properties of write_commit and read_commit.                             *)

\* The metadata of a commit that the overlay holds.
ExtrasOf(commit) == <<commit.is_open, commit.change_id, commit.predecessors>>

LastCall(op) == ret.op = op

\* The last call was a write_commit that reached the native commit write
\* and its commit hashes to id.
LastWriteHashedTo(id) ==
    /\ LastCall("write_commit")
    /\ id \in DOMAIN objects
    /\ objects[id] = git_commit_object(ret.arg)
    /\ write_commit_early_error(ret.arg) = None

\* C1. Collision guard: when write_commit(c1) has returned Ok(id), a later
\* write_commit(c2) whose native commit hashes to the same id and whose
\* is_open, change_id or predecessors differ from those of c1 does not
\* return Ok: it returns Other with the "already exists" message naming id.
CollisionGuard ==
    \A w \in written :
        (/\ LastWriteHashedTo(w.id)
         /\ ExtrasOf(ret.arg) # ExtrasOf(w.contents))
        => ret.res = AlreadyExists(w.id)

CollisionGuardWitness ==
    \E w \in written :
        /\ LastWriteHashedTo(w.id)
        /\ ret.arg.predecessors # w.contents.predecessors
        /\ ret.arg.is_open = w.contents.is_open
        /\ ret.arg.change_id = w.contents.change_id
        /\ ret.res = AlreadyExists(w.id)

\* C2. Write-once overlay record: a key present in the overlay head is
\* never removed and its value never changes, whatever calls follow, and
\* the record under a commit id is the record of the commit whose
\* write_commit first returned that id.
WriteOnceOverlay ==
    [][/\ \A k \in DOMAIN extra : k \in DOMAIN extra' /\ extra'[k] = extra[k]
       /\ \A w \in written' \ written :
             w.id \notin DOMAIN extra =>
                /\ w.id \in DOMAIN extra'
                /\ ParseProto(extra'[w.id],
                      [is_open |-> FALSE, change_id |-> <<>>, predecessors |-> <<>>])
                   = [is_open |-> w.contents.is_open,
                      change_id |-> w.contents.change_id,
                      predecessors |-> w.contents.predecessors]]_vars

\* A failed write_commit on a recorded commit id has left the record alone.
WriteOnceOverlayWitness ==
    \E w \in written :
        /\ LastWriteHashedTo(w.id)
        /\ ~IsOk(ret.res)
        /\ extra[w.id] # <<>>
        /\ Cardinality(DOMAIN extra) = 1

FreshBackend == objects = EmptyMap /\ refs = EmptyMap /\ extra = EmptyMap

\* C4. Pinning: when write_commit returns Ok(id), a reference under
\* refs/jj/keep/ targets id; when the call is the first on a freshly
\* initialised backend, the references under the namespace are exactly
\* one, and it targets id.
Pinning ==
    [][(ret'.op = "write_commit" /\ IsOk(ret'.res))
       => /\ \E r \in KeepRefs' : refs'[r] = ret'.res.val
          /\ FreshBackend =>
                /\ Cardinality(KeepRefs') = 1
                /\ \A r \in KeepRefs' : refs'[r] = ret'.res.val]_vars

PinningWitness ==
    /\ LastCall("write_commit")
    /\ IsOk(ret.res)
    /\ Cardinality(KeepRefs) = 1
    /\ \A r \in KeepRefs : refs[r] = ret.res.val
    /\ Cardinality(DOMAIN objects) = 1

\* C5. Read-your-writes of commit metadata: after write_commit(c) has
\* returned Ok(id), read_commit(id) returns a Commit with the is_open,
\* change_id and predecessors of c, the change_id also when it is empty or
\* otherwise not the one derived from id.
ReadYourWrites ==
    \A w \in written :
        (LastCall("read_commit") /\ ret.arg = w.id)
        => /\ IsOk(ret.res)
           /\ ret.res.val.is_open = w.contents.is_open
           /\ ret.res.val.change_id = w.contents.change_id
           /\ ret.res.val.predecessors = w.contents.predecessors

\* A commit written with an empty change_id and read back with it.
ReadYourWritesWitness ==
    \E w \in written :
        /\ LastCall("read_commit")
        /\ ret.arg = w.id
        /\ w.contents.change_id = <<>>
        /\ w.contents.predecessors = <<OidB, OidA>>
        /\ IsOk(ret.res)
        /\ ret.res.val.change_id = <<>>

\* The change id of a commit id, stated byte by byte and bit by bit: byte i
\* (from 0) is byte 19 - i of the commit id with its bits in reverse order.
Bit(b, k) == (b \div (2 ^ k)) % 2

IsChangeIdOf(change_id, id) ==
    /\ Len(change_id) = 16
    /\ \A i \in 0..15 :
          /\ change_id[i + 1] \in 0..255
          /\ \A k \in 0..7 : Bit(change_id[i + 1], k) = Bit(id[(19 - i) + 1], 7 - k)

\* The last call read a commit that the store holds and the overlay has no
\* record of.
ReadWithoutRecord ==
    /\ LastCall("read_commit")
    /\ Len(ret.arg) = HASH_LENGTH
    /\ ret.arg \in StoredIds("commit")
    /\ ret.arg \notin DOMAIN extra

\* C6. Neutral defaults: read_commit of a commit that the store holds and
\* the overlay has no record of returns Ok, with is_open false, no
\* predecessors and the change id derived from the commit id.
NeutralDefaults ==
    ReadWithoutRecord
    => /\ IsOk(ret.res)
       /\ ret.res.val.is_open = FALSE
       /\ ret.res.val.predecessors = <<>>
       /\ IsChangeIdOf(ret.res.val.change_id, ret.arg)

NeutralDefaultsWitness ==
    /\ ReadWithoutRecord
    /\ IsOk(ret.res)
    /\ ~ret.res.val.is_open
    /\ DOMAIN extra # {}

\* C9. Change-identity derivation: the default change id that read_commit
\* gives for a commit id of 20 bytes has 16 bytes, byte i being byte
\* 19 - i of the commit id with its bits reversed; it is that function of
\* the commit id whatever the commit's other fields are (for the commit id
\* of the test read_plain_git_commit it is the change id the test expects).
ChangeIdDerivation ==
    /\ (ReadWithoutRecord /\ IsOk(ret.res))
       => /\ IsChangeIdOf(ret.res.val.change_id, ret.arg)
          /\ ret.arg = OidA => ret.res.val.change_id = ChangeIdOfOidA
    /\ \A id \in OidPool \cup {EmptyTreeId, DanglingOid} :
          IsChangeIdOf(derived_change_id(id), id)

\* The default change id read for a commit with a parent.
ChangeIdDerivationWitness ==
    /\ ReadWithoutRecord
    /\ IsOk(ret.res)
    /\ ret.res.val.parents # <<>>
    /\ ret.res.val.change_id = derived_change_id(ret.arg)
    /\ ret.arg # OidA

-----------------------------------------------------------------------------
(* Properties of write_tree and read_tree.                                 *)

\* read_tree of the id the last call, a write_tree, returned gives back the
\* Tree that was written.
ReadsBackTree ==
    LET r == read_tree(ret.res.val)
    IN  IsOk(r) /\ r.val = ret.arg

\* C7, as claimed. Tree round-trip: for every Tree with unique entry names,
\* over all TreeValue variants, read_tree of the id write_tree returned
\* gives a Tree equal to the one written.
TreeRoundTrip ==
    (LastCall("write_tree") /\ IsOk(ret.res)) => ReadsBackTree

\* No entry of the tree is read back as another one: no plain file has a
\* name that ends with the conflict suffix, and no conflict shares its
\* written name with an entry that is not a conflict.
SuffixFree(tree) ==
    /\ \A n \in DOMAIN tree :
          (tree[n].variant = "Normal" /\ ~tree[n].executable)
          => ~EndsWith(n, CONFLICT_SUFFIX)
    /\ \A n \in DOMAIN tree :
          (tree[n].variant = "Conflict" /\ (n \o CONFLICT_SUFFIX) \in DOMAIN tree)
          => tree[n \o CONFLICT_SUFFIX].variant = "Conflict"

\* C7, amended. Tree round-trip: for every Tree with unique entry names in
\* which no non-executable Normal entry has a name ending with
\* ".jjconflict" and no Conflict entry named n stands beside a non-Conflict
\* entry named n + ".jjconflict", read_tree of the id write_tree returned
\* gives a Tree equal to the one written, over all TreeValue variants.
TreeRoundTripSuffixFree ==
    (LastCall("write_tree") /\ IsOk(ret.res) /\ SuffixFree(ret.arg))
    => ReadsBackTree

\* A tree of an executable file and a conflict was written and reads back.
TreeRoundTripWitness ==
    /\ LastCall("write_tree")
    /\ IsOk(ret.res)
    /\ SuffixFree(ret.arg)
    /\ Cardinality(DOMAIN ret.arg) = 2
    /\ ret.arg[<<"a">>].variant = "Normal"
    /\ ret.arg[<<"a">>].executable
    /\ ret.arg[<<"a">> \o CONFLICT_SUFFIX].variant = "Conflict"
    /\ ReadsBackTree

-----------------------------------------------------------------------------
(* Properties of the conflict and file calls.                              *)

\* C8. Conflict round-trip: read_conflict of the id write_conflict returned
\* for a Conflict gives a Conflict equal to it, with the removes and the
\* adds in their order, whatever the lengths of the two lists and the
\* variants of their parts (Conflict parts among them).
ConflictRoundTrip ==
    (LastCall("write_conflict") /\ IsOk(ret.res))
    => LET r == read_conflict(ret.res.val)
       IN  IsOk(r) /\ r.val.removes = ret.arg.removes /\ r.val.adds = ret.arg.adds

\* A conflict whose removes and adds differ was written and reads back.
ConflictRoundTripWitness ==
    /\ LastCall("write_conflict")
    /\ IsOk(ret.res)
    /\ Len(ret.arg.removes) = 4
    /\ Len(ret.arg.adds) = 2
    /\ ret.arg.adds[2].value.variant = "Conflict"
    /\ IsOk(read_conflict(ret.res.val))
    /\ read_conflict(ret.res.val).val = ret.arg

\* C10, as claimed. read_file returns NotFound, and neither aborts nor
\* returns Ok, when the length of the FileId is not the hash length and
\* when the id has that length and the store holds no blob with that id.
ReadFileNotFound ==
    (/\ LastCall("read_file")
     /\ \/ Len(ret.arg) # HASH_LENGTH
        \/ ~find_object(ret.arg, "blob").some)
    => IsNotFound(ret.res)

-----------------------------------------------------------------------------
(* Properties of concurrent calls.                                         *)

\* The commit id of a write_commit call that reached the native write.
WrittenId(t) ==
    CHOOSE id \in DOMAIN objects : objects[id] = git_commit_object(pc[t].arg)

\* Two threads have each returned from a write_commit of the same native
\* commit with different extra metadata.
ConflictingWrites(t, u) ==
    /\ t # u
    /\ At(t, "write_commit", "returned")
    /\ At(u, "write_commit", "returned")
    /\ git_commit_object(pc[t].arg) = git_commit_object(pc[u].arg)
    /\ serialize_extras(pc[t].arg) # serialize_extras(pc[u].arg)

\* A thread is between the overlay accesses of a call.
InOverlaySection(t) == pc[t].at \in {"committed", "mutating", "added", "found"}

OverlayUnderLock == \A t \in Threads : InOverlaySection(t) => lock = t

\* C14, as claimed. Of two write_commit calls of two threads that give the
\* same native commit id with different extra metadata, exactly one returns
\* Ok and the other the collision error, the overlay record of the id is
\* that of the call that returned Ok, and the overlay accesses of a call
\* are made with the lock held.
AtomicCollisionCheck ==
    /\ OverlayUnderLock
    /\ \A t, u \in Threads :
          ConflictingWrites(t, u)
          => /\ IsOk(pc[t].res) # IsOk(pc[u].res)
             /\ IsOk(pc[t].res) => /\ get_value(extra, WrittenId(t)).v = serialize_extras(pc[t].arg)
                                   /\ pc[u].res = AlreadyExists(WrittenId(t))

\* C14, amended. Of two such calls at most one returns Ok: a call returns
\* Ok exactly when the overlay record of the id is the metadata it wrote,
\* and returns the collision error otherwise, so that both return the
\* error when the record holds a third metadata written before; the
\* overlay accesses of a call are made with the lock held.
AtomicCollisionCheckOnRecord ==
    /\ OverlayUnderLock
    /\ \A t, u \in Threads :
          ConflictingWrites(t, u)
          => /\ ~(IsOk(pc[t].res) /\ IsOk(pc[u].res))
             /\ IsOk(pc[t].res)
                <=> get_value(extra, WrittenId(t)).v = serialize_extras(pc[t].arg)
             /\ ~IsOk(pc[t].res) => pc[t].res = AlreadyExists(WrittenId(t))

\* Two conflicting calls have returned, one with Ok and one with the error.
AtomicCollisionCheckWitness ==
    /\ ConflictingWrites("t1", "t2")
    /\ pc["t1"].res = AlreadyExists(WrittenId("t1"))
    /\ IsOk(pc["t2"].res)
    /\ get_value(extra, WrittenId("t2")).v = serialize_extras(pc["t2"].arg)

\* A thread is in a read_tree call on the id of the empty tree.
ReadsEmptyTree(t) == pc[t].op = "read_tree" /\ pc[t].arg = EmptyTreeId

\* C11. Empty-tree short-circuit: read_tree of the id empty_tree_id()
\* gives returns Ok with a Tree of no entries in every state of the
\* backend, a store without that object and a poisoned or held lock
\* included, and the call never holds the lock nor reaches the store.
EmptyTreeShortCircuit ==
    \A t \in Threads :
        ReadsEmptyTree(t)
        => /\ lock # t
           /\ pc[t].at \in {"entered", "done", "returned"}
           /\ pc[t].at \in {"done", "returned"} => pc[t].res = Ok(EmptyMap)

\* read_tree of the empty tree id has returned the empty Tree from a store
\* that never held the object, after the lock was poisoned.
EmptyTreeShortCircuitWitness ==
    /\ ReadsEmptyTree("t1")
    /\ pc["t1"].at = "returned"
    /\ pc["t1"].res = Ok(EmptyMap)
    /\ EmptyTreeId \notin DOMAIN objects
    /\ lock = "poisoned"

\* A thread is inside a call: past its entry (where it may wait for the
\* lock) and before its return.
Executing(t) ==
    pc[t].at \in {"locked", "committed", "mutating", "added", "found",
                  "decoding", "done"}

\* A thread is at an access to the store or the overlay.
InStoreSection(t) ==
    pc[t].at \in {"locked", "committed", "mutating", "added", "found"}

\* C15, as claimed. Single serialization point: a thread inside an
\* operation holds the lock until it returns, so that no two threads are
\* inside an operation at the same time.
SingleSerializationPoint ==
    /\ \A t \in Threads : Executing(t) => lock = t
    /\ \A t, u \in Threads : (Executing(t) /\ Executing(u)) => t = u

\* C15, amended. Every access of an operation to the store or the
\* overlay is made with the lock held, so that no two threads are at such
\* an access at the same time; the parts of an operation that make no such
\* access (the empty-tree and id-length returns, the decoding of a conflict
\* after its data is read) run without the lock and may overlap others.
StoreAccessSerialized ==
    /\ \A t \in Threads : InStoreSection(t) => lock = t
    /\ \A t, u \in Threads : (InStoreSection(t) /\ InStoreSection(u)) => t = u

\* One thread is between the overlay accesses of write_commit, with the
\* lock, while the other decodes the conflict it has read, without it.
StoreAccessSerializedWitness ==
    /\ At("t1", "write_commit", "mutating")
    /\ lock = "t1"
    /\ At("t2", "read_conflict", "decoding")

-----------------------------------------------------------------------------
(* Properties of the timestamps.                                           *)

\* floor(m / 1000) * 1000: the digit of the milliseconds is zero.
TruncatedToSeconds(m) == [m EXCEPT ![Len(m)] = 0]

TruncatedTimestamp(signature) ==
    [timestamp |-> TruncatedToSeconds(signature.timestamp.timestamp),
     tz_offset |-> signature.timestamp.tz_offset]

\* C12, as claimed. Timestamp precision: read_commit of the id of a commit
\* written with author and committer timestamps {m, z} returns the commit
\* with the timestamps {floor(m / 1000) * 1000, z}.
TimestampPrecision ==
    LastCall("read_commit")
    => \A w \in written :
          w.id = ret.arg
          => /\ IsOk(ret.res)
             /\ ret.res.val.author.timestamp = TruncatedTimestamp(w.contents.author)
             /\ ret.res.val.committer.timestamp = TruncatedTimestamp(w.contents.committer)

-----------------------------------------------------------------------------
(* Properties of the addresses of files and symlinks.                      *)

\* C13. Determinism of content addressing: any two write_file calls with
\* the same bytes have returned the same FileId and any two write_symlink
\* calls with the same target the same SymlinkId, whatever the state they
\* were made in and the paths they were given.
ContentAddressing ==
    \A w1, w2 \in written :
        (w1.contents.op = w2.contents.op /\ w1.contents.bytes = w2.contents.bytes)
        => w1.id = w2.id

\* The same bytes were written as a file under two paths, and a target as
\* a symlink under two paths, with another object written in between.
ContentAddressingWitness ==
    /\ \E w1, w2 \in written :
          /\ w1.contents.op = "write_file" /\ w2.contents.op = "write_file"
          /\ w1.contents.bytes = w2.contents.bytes
          /\ w1.contents.path # w2.contents.path
          /\ w1.id = w2.id
    /\ \E w1, w2 \in written :
          /\ w1.contents.op = "write_symlink" /\ w2.contents.op = "write_symlink"
          /\ w1.contents.bytes = w2.contents.bytes
          /\ w1.contents.path # w2.contents.path
          /\ w1.id = w2.id
    /\ Cardinality(DOMAIN objects) = 2

-----------------------------------------------------------------------------
(* Properties of the pinning references over the calls.                    *)

\* The call of the step is a write_commit that got to the native commit
\* write, of the commit id.
WriteReached(id) ==
    /\ ret'.op = "write_commit"
    /\ write_commit_early_error(ret'.arg) = None
    /\ id \in DOMAIN objects'
    /\ objects'[id] = git_commit_object(ret'.arg)

\* C16. Pinning references only accumulate: no call deletes or retargets
\* a reference under refs/jj/keep/; a write_commit that reaches the native
\* commit write adds exactly one reference, of a new name, that targets the
\* commit id, also when the call then returns the collision error; no
\* other call adds one.
PinsAccumulate ==
    [][/\ \A r \in KeepRefs : r \in KeepRefs' /\ refs'[r] = refs[r]
       /\ \A id \in DOMAIN objects' :
             WriteReached(id)
             => /\ Cardinality(KeepRefs' \ KeepRefs) = 1
                /\ \A r \in KeepRefs' \ KeepRefs : refs'[r] = id
                /\ ret'.res \in {Ok(id), AlreadyExists(id)}
       /\ (~\E id \in DOMAIN objects' : WriteReached(id)) => KeepRefs' = KeepRefs]_vars

\* A write_commit has returned the collision error, and two references
\* pin the commit: the one of the first write and the one of this call.
PinsAccumulateWitness ==
    /\ \E id \in DOMAIN objects :
          /\ LastWriteHashedTo(id)
          /\ ret.res = AlreadyExists(id)
          /\ Cardinality({r \in KeepRefs : refs[r] = id}) = 2
    /\ Cardinality(DOMAIN extra) = 1

-----------------------------------------------------------------------------
(* Properties of the decoding of conflicts.                                *)

\* The tag keys of the value of a conflict part.
TagKeys == {"file", "symlink_id", "tree_id", "submodule_id", "conflict_id"}

\* The parts of a list are objects whose value has exactly one tag key.
StrictlyTaggedList(list) ==
    /\ list.t = "Array"
    /\ \A i \in DOMAIN list.v :
          /\ json_get(list.v[i], "value").some
          /\ json_get(list.v[i], "value").v.t = "Object"
          /\ Cardinality(TagKeys \cap DOMAIN json_get(list.v[i], "value").v.v) = 1

\* The document has the removes and the adds list, strictly tagged.
StrictlyTagged(doc) ==
    /\ json_get(doc, "removes").some
    /\ json_get(doc, "adds").some
    /\ StrictlyTaggedList(json_get(doc, "removes").v)
    /\ StrictlyTaggedList(json_get(doc, "adds").v)

\* C17, as claimed. Strict conflict decoding: read_conflict of a stored
\* document that lacks the removes or the adds list, or in which the value
\* of a part has none or more than one of the five tag keys, aborts, and
\* returns no Conflict.
StrictDecoding ==
    (/\ LastCall("read_conflict")
     /\ find_object(ret.arg, "blob").some
     /\ find_object(ret.arg, "blob").v.content.form = "json"
     /\ ~StrictlyTagged(find_object(ret.arg, "blob").v.content.data))
    => ret.res = Panic

-----------------------------------------------------------------------------
(* Properties of the effects of the calls.                                 *)

ObjectWrites == {"write_file", "write_symlink", "write_tree", "write_conflict"}

Reads == {"read_file", "read_symlink", "read_tree", "read_conflict", "read_commit"}

\* C18. Frame of non-commit operations: a write_file, write_symlink,
\* write_tree or write_conflict call keeps the objects of the store, adds
\* at most one, and leaves the references and the overlay as they are; a
\* read call leaves the objects, the references and the overlay as they
\* are; only a write_commit call changes the references or the overlay.
Frame ==
    [][/\ ret'.op \in ObjectWrites
          => /\ \A o \in DOMAIN objects : o \in DOMAIN objects' /\ objects'[o] = objects[o]
             /\ Cardinality(DOMAIN objects' \ DOMAIN objects) <= 1
             /\ refs' = refs
             /\ extra' = extra
       /\ ret'.op \in Reads => objects' = objects /\ refs' = refs /\ extra' = extra
       /\ (refs' # refs \/ extra' # extra) => ret'.op = "write_commit"]_vars

\* A write_conflict has added its blob to a store that holds a commit with
\* its reference and its overlay record.
FrameWitness ==
    /\ LastCall("write_conflict")
    /\ IsOk(ret.res)
    /\ ret.res.val \in DOMAIN objects
    /\ Cardinality(DOMAIN objects) = 2
    /\ Cardinality(KeepRefs) = 1
    /\ Cardinality(DOMAIN extra) = 1

=============================================================================
